---- MODULE Spec2Model ----
(***************************************************************************)
(* Model of casadi::Sqpmethod (casadi/solvers/sqpmethod.cpp): the SQP      *)
(* iteration engine of Sqpmethod::evalD, with the evaluator, the QP solver *)
(* and the user callback as nondeterministic external ports.               *)
(*                                                                         *)
(* The model fixes nx = ng = 1, so every vector of the code is a scalar,   *)
(* and represents a double as a fixed-point integer with TOne units per    *)
(* 1.0 (products and quotients round towards minus infinity); a double     *)
(* that is not finite (inf, NaN) is the value NonFinite.                   *)
(***************************************************************************)
EXTENDS Integers, Sequences, FiniteSets, TLC

(* ---------------------------- bounds -------------------------------- *)
\* largest value of the option max_iter that is explored
MaxIterOpt == 2
\* largest value of the option max_iter_ls that is explored
MaxIterLsOpt == 2
\* trial numbers from LsCap on are counted as LsCap (all of them are above
\* every explored max_iter_ls)
LsCap == MaxIterLsOpt + 1
\* largest number of evalD calls made on one solver object
MaxSolves == 2
\* largest magnitude of an entry of a Hessian passed to the regularization
MaxEntry == 6

(* ------------------------ fixed-point numbers ------------------------ *)
\* fixed-point units per 1.0
TOne == 400
\* a finite double v, and a double that is inf or NaN
Fin(v) == [finite |-> TRUE, val |-> v]
NonFinite == [finite |-> FALSE, val |-> 0]

Abs(a) == IF a < 0 THEN -a ELSE a
Max(a, b) == IF a >= b THEN a ELSE b
Min(a, b) == IF a <= b THEN a ELSE b
\* floor division for either sign of the dividend, q > 0
FloorDiv(p, q) == IF p >= 0 THEN p \div q ELSE -((-p + q - 1) \div q)
\* a*b and a/b on fixed-point numbers
Mul(a, b) == FloorDiv(a * b, TOne)
Div(a, b) == IF b > 0 THEN FloorDiv(a * TOne, b) ELSE FloorDiv(-(a * TOne), -b)

(* --------------------------- options --------------------------------- *)
\* option tol_pr / tol_du: one fixed-point unit, so "< tol" means "= 0"
tol_pr_ == 1
tol_du_ == 1
\* option min_step_size: below one fixed-point unit
min_step_size_ == 0
\* option beta = 0.25
beta_ == TOne \div 4
\* options that differ between solver objects
Configs == [max_iter_: 0..MaxIterOpt, max_iter_ls_: 0..MaxIterLsOpt,
            has_callback: BOOLEAN, exact_hessian_: BOOLEAN,
            merit_memsize_: {1, 2}, lbfgs_memory_: {2}, regularize_: {TRUE},
            c1_: {TOne \div 2}]

(* ------------------------- problem data ------------------------------ *)
lbx == -TOne
ubx == TOne
lbg == 0
ubg == 0
\* NLPSOL_X0, NLPSOL_LAM_G0, NLPSOL_LAM_X0 passed to one evalD call
Args == [x0: {TOne}, lam_g0: {TOne}, lam_x0: {0}]

(* ------------------- values the external ports return ---------------- *)
\* what jacG (g, J), gradF (f, gf) and hessLag (H) evaluate to at one point
EvalVals == {[g |-> 0, J |-> TOne, f |-> 0, gf |-> 0, H |-> TOne],
             [g |-> 0, J |-> TOne, f |-> TOne, gf |-> -TOne, H |-> -TOne],
             [g |-> TOne, J |-> TOne, f |-> TOne, gf |-> -TOne, H |-> -TOne]}
\* <<f, g>> pairs evaluated at a line-search trial point
TrialVals == {<<0, 0>>, <<TOne, TOne>>}
\* QP solutions <<x_opt, lambda_x_opt, lambda_A_opt>>
QPVals == {<<0, 0, TOne>>, <<TOne, TOne, 0>>, <<TOne, 0, 0>>}

VARIABLES
  cfg, mant, prob, Hbuf, other, arg, pc, solves,
  x_, x_old_, x_cand_, mu_, mu_x_, fk_, gk_, gk_cand_, gf_, Jk_, Bk_,
  gLag_, gLag_old_, dx_, qp_DUAL_X_, qp_DUAL_A_, qp_bounds,
  sigma_, merit_mem_, reg_, iter, ls_iter, ls_success, t, fk_cand, L1dir,
  ret, n_eval, n_qp, out, stats, hist

iterate == <<x_, x_old_, x_cand_, mu_, mu_x_, fk_, gk_, gk_cand_, gf_, Jk_, Bk_,
             gLag_, gLag_old_>>
qpvars == <<dx_, qp_DUAL_X_, qp_DUAL_A_, qp_bounds>>
lsvars == <<sigma_, merit_mem_, ls_iter, ls_success, t, fk_cand, L1dir>>
vars == <<cfg, mant, prob, Hbuf, other, arg, pc, solves, iterate, qpvars, lsvars, reg_, iter,
          ret, n_eval, n_qp, out, stats, hist>>

\* option c1 of the solver object
c1_ == cfg.c1_

(* ------------------------ pure helpers ------------------------------- *)
norm_inf(v) == Abs(v)

primalInfeasibility(x, lbx_, ubx_, g, lbg_, ubg_) ==
  Max(Max(Max(Max(0, lbx_ - x), x - ubx_), lbg_ - g), g - ubg_)

\* a gradient of the Lagrangian without the multipliers of the bounds
lagGrad_no_bounds(gf, J, mu, mux) == gf + Mul(J, mu)

\* gLag = gf + Jk^T mu + mu_x
lagGrad(gf, J, mu, mux) == gf + Mul(J, mu) + mux

\* the call counters n_eval_grad_f_, n_eval_jac_g_, n_eval_h_ at zero (the
\* per-trial counters n_eval_f_, n_eval_g_ and the timers are statistics
\* that the model does not carry)
ZeroCount == [grad_f |-> 0, jac_g |-> 0, h |-> 0]

(* ------------------------- construction ------------------------------ *)
\* the NLP behind the evaluator and the QP solver: in Ports they are
\* external ports that may answer anything
Ports == [kind |-> "ports", h |-> 0, b |-> 0, a |-> 0, c |-> 0]

\* the NLPs  min (h/2) x^2 + b x  subject to  lbg <= a x + c <= ubg  and
\* lbx <= x <= ubx  with h >= 0, feasible, a = 0 standing for no constraint
QuadProblems ==
  {[kind |-> "quadratic", h |-> hh, b |-> bb, a |-> ac[1], c |-> ac[2]] :
     hh \in {0, TOne, 2 * TOne}, bb \in {-2 * TOne, -TOne, 0, TOne},
     ac \in {<<0, 0>>, <<TOne, 0>>, <<TOne, -TOne>>}}

\* g, J, f, gf and the Hessian of the Lagrangian of a quadratic NLP at x
quadValues(x) ==
  [g |-> Mul(prob.a, x) + prob.c, J |-> prob.a,
   f |-> Mul(Mul(prob.h \div 2, x), x) + Mul(prob.b, x),
   gf |-> Mul(prob.h, x) + prob.b, H |-> prob.h]

\* the NLP  min x^3/6  subject to  lbg <= 1 - x^2 <= ubg  and
\* lbx <= x <= ubx, with a QP solver that may answer anything: every
\* evaluator is a function of its arguments that tells two points apart
Nonlinear == [kind |-> "nonlinear", h |-> 0, b |-> 0, a |-> 0, c |-> 0]

\* g, J, f, gf of the NLP Nonlinear at x and the Hessian of its Lagrangian
\* f + lam*g at (x, lam) with the objective scaled by 1.0
nonlinearValues(x, lam) ==
  [g |-> TOne - Mul(x, x), J |-> -2 * x,
   f |-> FloorDiv(Mul(Mul(x, x), x), 6), gf |-> FloorDiv(Mul(x, x), 2),
   H |-> x - 2 * lam]

\* the arguments of eval_h taken from the multipliers of the previous pass
evalArgs_old_mu(x, mu) == [x |-> x, lam |-> mu_]

\* the arguments eval_jac_g, eval_grad_f and eval_h are called with: the
\* members x_ and mu_ as they are at the call
evalArgs(x, mu) == [x |-> x, lam |-> mu]

\* what jacG, gradF and hessLag evaluate to at x (hessLag with the
\* multiplier lam), and the evaluators that may throw
evalAt(x, lam) ==
  IF prob.kind = "ports" THEN EvalVals
  ELSE IF prob.kind = "quadratic" THEN {quadValues(x)}
  ELSE {nonlinearValues(x, lam)}
evalFailures ==
  IF prob.kind = "ports" THEN {"none", "jac_g", "grad_f", "h"} ELSE {"none"}

\* what eval_f and eval_g evaluate to at a trial point
trialAt(x) ==
  IF prob.kind = "ports" THEN TrialVals
  ELSE IF prob.kind = "quadratic" THEN {<<quadValues(x).f, quadValues(x).g>>}
  ELSE {<<nonlinearValues(x, 0).f, nonlinearValues(x, 0).g>>}

\* the solution <<x_opt, lambda_x_opt, lambda_A_opt>> of the QP
\*   min 1/2 B d^2 + gfv d   s.t.  LBX <= d <= UBX,  LBA <= J d <= UBA
\* with B >= 0, J >= 0 and a non-empty feasible set
qpExact(B, gfv, J, bnd) ==
  LET lo == IF J > 0 THEN Max(bnd.LBX, Div(bnd.LBA, J)) ELSE bnd.LBX
      hi == IF J > 0 THEN Min(bnd.UBX, Div(bnd.UBA, J)) ELSE bnd.UBX
      free == IF B > 0 THEN Div(-gfv, B)
              ELSE IF gfv > 0 THEN lo ELSE IF gfv < 0 THEN hi ELSE 0
      d == Max(lo, Min(hi, free))
      r == -(Mul(B, d) + gfv)
      onRow == J > 0 /\ (d = Div(bnd.LBA, J) \/ d = Div(bnd.UBA, J))
  IN  IF onRow THEN <<d, 0, Div(r, J)>> ELSE <<d, r, 0>>

\* the matrix buffer H of eval_h and the regularization found for it, when
\* eval_h is looked at on its own: nothing there
NoMatrix == [H0 |-> <<>>, H |-> <<>>, reg |-> 0, at |-> "none"]

\* the local variables of an evalD call that has not begun, with the
\* members of the object as the call last saw them (seen)
NoCall ==
  [pc |-> "idle", iter |-> 0, ls_iter |-> 0, ls_success |-> TRUE, t |-> 0,
   fk_cand |-> 0, L1dir |-> 0, ret |-> 0, seen |-> <<>>]

\* the members of a solver object after Sqpmethod::init
InitEngine ==
  /\ other = NoCall
  /\ arg = [x0 |-> 0, lam_g0 |-> 0, lam_x0 |-> 0]
  /\ pc = "idle"
  /\ solves = 0
  /\ x_ = 0 /\ x_old_ = 0 /\ x_cand_ = 0 /\ mu_ = 0 /\ mu_x_ = 0
  /\ fk_ = 0 /\ gk_ = 0 /\ gk_cand_ = 0 /\ gf_ = 0 /\ Jk_ = 0 /\ Bk_ = Fin(0)
  /\ gLag_ = 0 /\ gLag_old_ = 0
  /\ dx_ = 0 /\ qp_DUAL_X_ = 0 /\ qp_DUAL_A_ = 0
  /\ qp_bounds = [LBX |-> 0, UBX |-> 0, LBA |-> 0, UBA |-> 0]
  /\ sigma_ = 0 /\ merit_mem_ = <<>> /\ reg_ = 0
  /\ iter = 0 /\ ls_iter = 0 /\ ls_success = TRUE /\ t = 0
  /\ fk_cand = 0 /\ L1dir = 0
  /\ ret = 0
  /\ n_eval = ZeroCount
  /\ n_qp = 0
  /\ out = [x |-> 0, f |-> 0, g |-> 0, lam_g |-> 0, lam_x |-> 0]
  /\ stats = [return_status |-> "", iter_count |-> 0]
  /\ hist = [out0 |-> out, status_written |-> FALSE, n_callback |-> 0, thrown |-> "",
             trial |-> ""]

Init ==
  /\ cfg \in Configs
  /\ mant = 0
  /\ prob = Ports
  /\ Hbuf = NoMatrix
  /\ InitEngine

(* ----------------------- Hessian helpers ----------------------------- *)
\* the smallest power of two q, from q on, with a < q * 2^p
RECURSIVE quantum(_, _, _)
quantum(a, p, q) == IF a < q * 2 ^ p THEN q ELSE quantum(a, p, 2 * q)

\* the double nearest to the real number v (ties to the even significand)
\* when a double has p significand bits and the numbers are integers
flP(v, p) ==
  LET a == Abs(v)
      q == quantum(a, p, 1)
      lo == (a \div q) * q
      r == a - lo
      near == IF 2 * r > q \/ (2 * r = q /\ (lo \div q) % 2 = 1) THEN lo + q ELSE lo
  IN  IF v < 0 THEN -near ELSE near

\* the result of a double addition whose real value is v: rounded to mant
\* significand bits; mant = 0 is the engine model, whose sums are all exact
fl(v) == IF mant = 0 THEN v ELSE flP(v, mant)

\* a square matrix is the sequence of its columns; the 1x1 matrix of v and
\* the entry of a 1x1 matrix
mat1(v) == <<<<v>>>>
scalar(M) == M[1][1]

\* the inner loop of getRegularization: mineig after the entries rr.. of
\* column cc
RECURSIVE columnBound(_, _, _, _)
columnBound(H, cc, rr, mineig) ==
  IF rr > Len(H) THEN mineig
  ELSE columnBound(H, cc, rr + 1,
                   IF rr = cc THEN fl(mineig + H[cc][rr])
                              ELSE fl(mineig - Abs(H[cc][rr])))

\* the outer loop of getRegularization: reg_param after the columns cc..
RECURSIVE columnLoop(_, _, _)
columnLoop(H, cc, reg_param) ==
  IF cc > Len(H) THEN reg_param
  ELSE columnLoop(H, cc + 1, Min(reg_param, columnBound(H, cc, 1, 0)))

\* Sqpmethod::getRegularization
getRegularization(H) == -columnLoop(H, 1, 0)

\* Sqpmethod::regularize: reg is added to every diagonal entry
regularize(H, reg) ==
  [cc \in 1..Len(H) |->
     [rr \in 1..Len(H) |-> IF rr = cc THEN fl(H[cc][rr] + reg) ELSE H[cc][rr]]]

\* Sqpmethod::eval_h after a successful hessLag evaluation returning the
\* matrix H: the pair <<Bk_, reg_>> it leaves
eval_h(H, reg) ==
  IF cfg.regularize_
    THEN LET r == getRegularization(H)
         IN  IF r > 0 THEN <<regularize(H, r), r>> ELSE <<H, r>>
    ELSE <<H, reg>>

\* significand bits of the doubles when the regularization is looked at on
\* its own (a double has 53; 3 bits round the same way on small integers)
MantBits == 3

\* the doubles of magnitude up to MaxEntry, and the symmetric 2x2 matrices
\* of such doubles with all four entries structurally present
Doubles == {v \in -MaxEntry..MaxEntry : flP(v, MantBits) = v}
SymMatrices ==
  {<<<<d[1], d[2]>>, <<d[2], d[3]>>>> : d \in Doubles \X Doubles \X Doubles}

\* eval_h looked at on its own: hessLag has just returned the matrix H
RegInit ==
  /\ cfg \in {c \in Configs : /\ c.max_iter_ = 0 /\ c.max_iter_ls_ = 0
                               /\ ~c.has_callback /\ c.exact_hessian_
                               /\ c.merit_memsize_ = 1}
  /\ mant = MantBits
  /\ prob = Ports
  /\ Hbuf \in {[H0 |-> m, H |-> m, reg |-> 0, at |-> "hessLag"] : m \in SymMatrices}
  /\ InitEngine

\* "Determing regularization parameter with Gershgorin theorem": the part
\* of eval_h after hessLag.getOutput(H)
Regularization ==
  /\ Hbuf.at = "hessLag"
  /\ Hbuf' = [Hbuf EXCEPT !.H = eval_h(Hbuf.H, Hbuf.reg)[1],
                          !.reg = eval_h(Hbuf.H, Hbuf.reg)[2],
                          !.at = "regularized"]
  /\ UNCHANGED <<cfg, mant, prob, other, arg, pc, solves, iterate, qpvars, lsvars, reg_,
                 iter, ret, n_eval, n_qp, out, stats, hist>>

RegNext == Regularization

RegSpec == RegInit /\ [][RegNext]_vars

\* B_init_ = eye(nx_), set by Sqpmethod::reset_h
B_init_ == TOne

(* ----------------------- start of evalD ------------------------------ *)
\* an evaluation failure that is swallowed, the loop going on
evalFailure_continue == "loop"

\* where an exception thrown by an evaluator outside the line search goes:
\* evalD has no handler, the call is left
evalFailure == "error"

\* a merit memory that survives from the previous call
meritReset_keep == merit_mem_

\* "Reset": merit_mem_.clear()
meritReset == <<>>

\* multipliers started at zero whatever the inputs
seedIterate_zero_duals(a) == [x |-> a.x0, mu |-> 0, mu_x |-> 0]

\* "Set linearization point to initial guess", "Initialize Lagrange
\* multipliers of the NLP": x_, mu_, mu_x_ copied from the inputs
seedIterate(a) == [x |-> a.x0, mu |-> a.lam_g0, mu_x |-> a.lam_x0]

\* evalD up to the main loop: seed the iterate from the inputs, evaluate
\* jac_g, grad_f and the Hessian at x0; fail names the evaluator that throws
evalD_start ==
  /\ solves' = solves + 1
  /\ \E a \in Args, fail \in evalFailures :
     \E e \in evalAt(evalArgs(seedIterate(a).x, seedIterate(a).mu).x,
                      evalArgs(seedIterate(a).x, seedIterate(a).mu).lam) :
      LET g == e.g
          J == e.J
          f == e.f
          gf == e.gf
          H == e.H
      IN
       /\ fail = "h" => cfg.exact_hessian_
       /\ fail = "jac_g" => e.g = 0 /\ e.f = 0
       /\ fail = "grad_f" => e.f = TOne
       /\ arg' = a
       /\ x_' = seedIterate(a).x /\ mu_' = seedIterate(a).mu
       /\ mu_x_' = seedIterate(a).mu_x
       /\ gk_' = IF fail = "jac_g" THEN gk_ ELSE g
       /\ Jk_' = IF fail = "jac_g" THEN Jk_ ELSE J
       /\ fk_' = IF fail \in {"jac_g", "grad_f"} THEN fk_ ELSE f
       /\ gf_' = IF fail \in {"jac_g", "grad_f"} THEN gf_ ELSE gf
       /\ n_eval' = [ZeroCount EXCEPT !.jac_g = IF fail = "jac_g" THEN 0 ELSE 1,
                                      !.grad_f = IF fail \in {"jac_g", "grad_f"} THEN 0 ELSE 1]
       /\ hist' = [out0 |-> out, status_written |-> FALSE, n_callback |-> 0,
                   thrown |-> IF fail = "none" THEN "" ELSE fail, trial |-> ""]
       /\ IF fail = "none"
            THEN /\ pc' = "loop"
                 /\ IF cfg.exact_hessian_
                      THEN /\ Bk_' = Fin(scalar(eval_h(mat1(H), 0)[1]))
                           /\ reg_' = eval_h(mat1(H), 0)[2]
                      ELSE /\ Bk_' = Fin(B_init_)
                           /\ reg_' = 0
                 /\ gLag_' = lagGrad(gf, J, seedIterate(a).mu, seedIterate(a).mu_x)
                 /\ iter' = 0 /\ ls_iter' = 0 /\ ls_success' = TRUE
                 /\ merit_mem_' = meritReset /\ sigma_' = 0 /\ t' = 0
            ELSE /\ pc' = evalFailure
                 /\ reg_' = IF fail = "h" THEN 0 ELSE reg_
                 /\ UNCHANGED <<Bk_, gLag_, iter, ls_iter, ls_success,
                                merit_mem_, sigma_, t>>
  /\ n_qp' = 0
  /\ UNCHANGED <<cfg, mant, prob, Hbuf, other, x_old_, x_cand_, gk_cand_, gLag_old_, qpvars, fk_cand, L1dir,
                 ret, out, stats>>

\* the first evalD call on a solver object
Solve == pc = "idle" /\ evalD_start

\* a further evalD call on the same object, after a call that returned or
\* threw
Resolve == pc \in {"done", "error"} /\ solves < MaxSolves /\ evalD_start

(* ----------------------- top of the main loop ------------------------ *)
\* the tests with the iteration cap tested before the convergence tolerances
terminalStatus_cap_first(abort, pr, du, it, dn) ==
  IF abort # 0 THEN "User_Requested_Stop"
  ELSE IF it >= cfg.max_iter_ THEN "Maximum_Iterations_Exceeded"
  ELSE IF pr < tol_pr_ /\ du < tol_du_ THEN "Solve_Succeeded"
  ELSE IF it > 0 /\ dn <= min_step_size_
    THEN "Search_Direction_Becomes_Too_Small"
  ELSE "none"

\* the tests with the callback's flag tested after the convergence tolerances
terminalStatus_abort_late(abort, pr, du, it, dn) ==
  IF pr < tol_pr_ /\ du < tol_du_ THEN "Solve_Succeeded"
  ELSE IF abort # 0 THEN "User_Requested_Stop"
  ELSE IF it >= cfg.max_iter_ THEN "Maximum_Iterations_Exceeded"
  ELSE IF it > 0 /\ dn <= min_step_size_
    THEN "Search_Direction_Becomes_Too_Small"
  ELSE "none"

\* the tests with the step test made at iteration 0 too
terminalStatus_step_at_zero(abort, pr, du, it, dn) ==
  IF abort # 0 THEN "User_Requested_Stop"
  ELSE IF pr < tol_pr_ /\ du < tol_du_ THEN "Solve_Succeeded"
  ELSE IF it >= cfg.max_iter_ THEN "Maximum_Iterations_Exceeded"
  ELSE IF dn <= min_step_size_
    THEN "Search_Direction_Becomes_Too_Small"
  ELSE "none"

\* the tests without the iteration cap
terminalStatus_no_cap(abort, pr, du, it, dn) ==
  IF abort # 0 THEN "User_Requested_Stop"
  ELSE IF pr < tol_pr_ /\ du < tol_du_ THEN "Solve_Succeeded"
  ELSE IF it > 0 /\ dn <= min_step_size_
    THEN "Search_Direction_Becomes_Too_Small"
  ELSE "none"

\* the termination tests of one pass, in the order of the code: the status
\* written to stats_["return_status"], or "none" when the pass goes on
terminalStatus(abort, pr, du, it, dn) ==
  IF abort # 0 THEN "User_Requested_Stop"
  ELSE IF pr < tol_pr_ /\ du < tol_du_ THEN "Solve_Succeeded"
  ELSE IF it >= cfg.max_iter_ THEN "Maximum_Iterations_Exceeded"
  ELSE IF it > 0 /\ dn <= min_step_size_
    THEN "Search_Direction_Becomes_Too_Small"
  ELSE "none"

\* the outputs with the two multiplier vectors exchanged
iterateOutputs_swapped ==
  [x |-> x_, f |-> fk_, g |-> gk_, lam_g |-> mu_x_, lam_x |-> mu_]

\* the values written to the five outputs from the iterate, by the callback
\* preparation and by "Save results to outputs"
iterateOutputs == [x |-> x_, f |-> fk_, g |-> gk_, lam_g |-> mu_, lam_x |-> mu_x_]

\* the preparation done whether or not a callback is installed
callbackOutputs_always == iterateOutputs

\* "Call callback function if present": the outputs after the preparation
callbackOutputs == IF cfg.has_callback THEN iterateOutputs ELSE out

\* a callback evaluated twice in a pass
callbackCalls_twice == IF cfg.has_callback THEN 2 ELSE 0

\* the number of fcallback_.evaluate() calls in one pass of the loop
callbackCalls == IF cfg.has_callback THEN 1 ELSE 0

\* what the callback can return: ret is only computed when it is installed
callbackReturns == IF cfg.has_callback THEN {0, 1} ELSE {0}

pr_inf == primalInfeasibility(x_, lbx, ubx, gk_, lbg, ubg)
gLag_norminf == norm_inf(gLag_)
dx_norminf == norm_inf(dx_)

\* a pass of the main loop that breaks: the status is stored, the loop is
\* left, the results and the statistics are saved
Terminate ==
  /\ pc = "loop"
  /\ \E r \in callbackReturns :
       LET status == terminalStatus(r, pr_inf, gLag_norminf, iter, dx_norminf)
       IN  /\ status # "none"
           /\ ret' = r
           /\ stats' = [return_status |-> status, iter_count |-> iter]
           /\ out' = iterateOutputs
           /\ hist' = [hist EXCEPT !.status_written = TRUE,
                          !.n_callback = @ + callbackCalls]
           /\ pc' = "done"
  /\ UNCHANGED <<cfg, mant, prob, Hbuf, other, arg, solves, iterate, qpvars, lsvars, reg_, iter, n_eval, n_qp>>

\* QP bounds formulated from the point of the previous pass
qpFormulate_stale ==
  [LBX |-> lbx - x_old_, UBX |-> ubx - x_old_, LBA |-> lbg - gk_, UBA |-> ubg - gk_]

\* the QP bounds formulated from the iterate
qpFormulate == [LBX |-> lbx - x_, UBX |-> ubx - x_, LBA |-> lbg - gk_, UBA |-> ubg - gk_]

\* a QP failure that is swallowed, the loop going to its next pass
qpFailure_retry == "loop"

\* where an exception thrown by qpsol_.evaluate() goes: solve_QP and evalD
\* have no handler, the call is left
qpFailure == "error"

\* a pass that goes on, up to a QP solver that throws
QPFail ==
  /\ pc = "loop"
  /\ prob.kind = "ports"
  /\ \E r \in callbackReturns :
       /\ terminalStatus(r, pr_inf, gLag_norminf, iter, dx_norminf) = "none"
       /\ ret' = r
  /\ out' = callbackOutputs
  /\ hist' = [hist EXCEPT !.n_callback = @ + callbackCalls,
                          !.thrown = "qpsol"]
  /\ iter' = iter + 1
  /\ qp_bounds' = qpFormulate
  /\ n_qp' = n_qp + 1
  /\ pc' = qpFailure
  /\ UNCHANGED <<cfg, mant, prob, Hbuf, other, arg, solves, iterate, dx_, qp_DUAL_X_, qp_DUAL_A_, lsvars,
                 reg_, n_eval, stats>>

\* a memory that drops the value just pushed when it is over capacity
meritPush_drop_newest(mem, L1merit) ==
  IF Len(mem) >= cfg.merit_memsize_ THEN mem ELSE Append(mem, L1merit)

\* merit_mem_.push_back(L1merit) followed by the pop_front over capacity
meritPush(mem, L1merit) ==
  LET pushed == Append(mem, L1merit)
  IN  IF Len(pushed) > cfg.merit_memsize_ THEN Tail(pushed) ELSE pushed

\* a penalty parameter recomputed from the duals of this iteration alone
sigmaUpdate_forget(sigma, dual_x, dual_a) ==
  Max(FloorDiv(101 * norm_inf(dual_x), 100), FloorDiv(101 * norm_inf(dual_a), 100))

\* sigma_ after the two std::max updates; 1.01 is 101/100
sigmaUpdate(sigma, dual_x, dual_a) ==
  Max(Max(sigma, FloorDiv(101 * norm_inf(dual_x), 100)),
      FloorDiv(101 * norm_inf(dual_a), 100))

\* what solve_QP hands to qpsol_ besides the bounds: QPSOL_H, QPSOL_G,
\* QPSOL_A and the hot start QPSOL_X0, which is x_opt = dx_ as the previous
\* QP left it
qpData == [H |-> Bk_, g |-> gf_, A |-> Jk_, x0 |-> dx_]

\* what qpsol_ returns for the QP of this pass
qpSolve ==
  IF prob.kind = "quadratic"
    THEN {qpExact(qpData.H.val, qpData.g, qpData.A, qpFormulate)}
    ELSE QPVals

\* a pass that goes on: iter++, the QP is formulated and solved, the penalty
\* parameter, L1dir and the merit memory are updated and the line search is
\* set up
Iterate ==
  /\ pc = "loop"
  /\ \E r \in callbackReturns :
       /\ terminalStatus(r, pr_inf, gLag_norminf, iter, dx_norminf) = "none"
       /\ ret' = r
  /\ out' = callbackOutputs
  /\ hist' = [hist EXCEPT !.n_callback = @ + callbackCalls,
                          !.trial = ""]
  /\ iter' = iter + 1
  /\ qp_bounds' = qpFormulate
  /\ n_qp' = n_qp + 1
  /\ \E sol \in qpSolve :
       LET d == sol[1]
           dual_x == sol[2]
           dual_a == sol[3]
           sigma == sigmaUpdate(sigma_, dual_x, dual_a)
           l1_infeas == pr_inf
           F_sens == Mul(d, gf_)
           L1merit == fk_ + Mul(sigma, l1_infeas)
       IN  /\ dx_' = d /\ qp_DUAL_X_' = dual_x /\ qp_DUAL_A_' = dual_a
           /\ sigma_' = sigma
           /\ L1dir' = F_sens - Mul(sigma, l1_infeas)
           /\ merit_mem_' = meritPush(merit_mem_, L1merit)
  /\ t' = TOne
  /\ ls_iter' = 0
  /\ ls_success' = TRUE
  /\ pc' = IF cfg.max_iter_ls_ > 0 THEN "linesearch" ELSE "update"
  /\ UNCHANGED <<cfg, mant, prob, Hbuf, other, arg, solves, iterate, fk_cand, reg_, n_eval, stats>>

(* --------------------------- line search ------------------------------ *)
\* *max_element(merit_mem_.begin(), merit_mem_.end())
RECURSIVE max_element(_)
max_element(mem) ==
  IF Len(mem) = 1 THEN mem[1] ELSE Max(mem[1], max_element(Tail(mem)))

\* a trial point built on the point of the previous pass
trialPoint_stale == x_old_ + Mul(t, dx_)

\* the trial point x_ + t * dx_
trialPoint == x_ + Mul(t, dx_)


\* a backtracking that always shrinks the unit step
backtrack_from_one(tt) == Mul(beta_, TOne)

\* "Backtracking": t = beta_ * t
backtrack(tt) == Mul(beta_, tt)

\* a monotone test: against the merit of the current iterate alone
armijo_monotone(f_cand, g_cand) ==
  LET l1_infeas == primalInfeasibility(trialPoint, lbx, ubx, g_cand, lbg, ubg)
      L1merit_cand == f_cand + Mul(sigma_, l1_infeas)
  IN  L1merit_cand <= merit_mem_[Len(merit_mem_)] + Mul(Mul(t, c1_), L1dir)

\* the Armijo test on an evaluated trial
armijo(f_cand, g_cand) ==
  LET l1_infeas == primalInfeasibility(trialPoint, lbx, ubx, g_cand, lbg, ubg)
      L1merit_cand == f_cand + Mul(sigma_, l1_infeas)
      meritmax == max_element(merit_mem_)
  IN  L1merit_cand <= meritmax + Mul(Mul(t, c1_), L1dir)

\* what the Armijo test can give: with an empty merit memory max_element
\* returns the end iterator, whose dereference is undefined, and the test
\* compares against whatever is read
armijoOutcomes(f_cand, g_cand) ==
  IF merit_mem_ = <<>> THEN {TRUE, FALSE} ELSE {armijo(f_cand, g_cand)}

\* ls_iter++, with the trial numbers from LsCap on pooled
nextTrial(n) == IF n < LsCap THEN n + 1 ELSE LsCap

\* what the catch block of the line search does after counting the failed
\* trial: TRUE when it stops the search as exhausted
catchStops(n) == FALSE

\* a trial whose eval_f (which = "f") or eval_g (which = "g") throws: the
\* catch block counts the trial, shrinks t and continues the loop
TrialEvalFail ==
  /\ pc = "linesearch"
  /\ prob.kind = "ports"
  /\ x_cand_' = trialPoint
  /\ \E which \in {"f", "g"}, fg \in TrialVals :
       /\ which = "f" => fg[1] = 0
       /\ fk_cand' = IF which = "g" THEN fg[1] ELSE fk_cand
  /\ ls_iter' = nextTrial(ls_iter)
  /\ IF catchStops(ls_iter')
       THEN /\ ls_success' = FALSE
            /\ pc' = "update"
            /\ t' = t
       ELSE /\ ls_success' = ls_success
            /\ pc' = "linesearch"
            /\ t' = backtrack(t)
  /\ UNCHANGED <<cfg, mant, prob, Hbuf, other, arg, solves, x_, x_old_, mu_, mu_x_, fk_, gk_, gk_cand_, gf_,
                 Jk_, Bk_, gLag_, gLag_old_, qpvars, sigma_, merit_mem_, L1dir,
                 reg_, iter, ret, n_eval, n_qp, out, stats>>
  /\ hist' = [hist EXCEPT !.trial = "threw"]

\* the state change common to every trial that is evaluated
TrialEvaluated(f, g) ==
  /\ pc = "linesearch"
  /\ x_cand_' = trialPoint
  /\ fk_cand' = f
  /\ gk_cand_' = g
  /\ ls_iter' = nextTrial(ls_iter)
  /\ UNCHANGED <<cfg, mant, prob, Hbuf, other, arg, solves, x_, x_old_, mu_, mu_x_, fk_, gk_, gf_,
                 Jk_, Bk_, gLag_, gLag_old_, qpvars, sigma_, merit_mem_, L1dir,
                 reg_, iter, ret, n_eval, n_qp, out, stats>>
  /\ hist' = [hist EXCEPT !.trial = "evaluated"]

\* a trial that passes the Armijo test: the search ends with success
TrialAccept ==
  \E fg \in trialAt(trialPoint) :
    /\ TrialEvaluated(fg[1], fg[2])
    /\ TRUE \in armijoOutcomes(fg[1], fg[2])
    /\ pc' = "update"
    /\ UNCHANGED <<t, ls_success>>

\* a rejected trial that is number max_iter_ls_: the search ends without
\* success and the trial is kept
TrialExhausted ==
  \E fg \in trialAt(trialPoint) :
    /\ TrialEvaluated(fg[1], fg[2])
    /\ FALSE \in armijoOutcomes(fg[1], fg[2])
    /\ ls_iter' = cfg.max_iter_ls_
    /\ ls_success' = FALSE
    /\ pc' = "update"
    /\ UNCHANGED t

\* a rejected trial that is not number max_iter_ls_: backtrack
TrialBacktrack ==
  \E fg \in trialAt(trialPoint) :
    /\ TrialEvaluated(fg[1], fg[2])
    /\ FALSE \in armijoOutcomes(fg[1], fg[2])
    /\ ls_iter' # cfg.max_iter_ls_
    /\ t' = backtrack(t)
    /\ pc' = "linesearch"
    /\ UNCHANGED ls_success

(* ------------------ step, re-evaluation, Hessian update --------------- *)
\* the BFGS update function bfgs_ built in Sqpmethod::init, for 1x1 Bk; a
\* zero denominator makes the result inf or NaN
bfgs(B, x, x_old, gLag, gLag_old) ==
  IF ~B.finite THEN NonFinite
  ELSE
    LET Bk == B.val
        sk == x - x_old
        yk0 == gLag - gLag_old
        qk == Mul(Bk, sk)
        skBksk == Mul(sk, qk)
        damp == Mul(yk0, sk) < Mul(TOne \div 5, skBksk)
        den == skBksk - Mul(sk, yk0)
    IN  IF damp /\ den = 0 THEN NonFinite
        ELSE
          LET omega == IF damp THEN Div(Mul((4 * TOne) \div 5, skBksk), den) ELSE TOne
              yk == Mul(omega, yk0) + Mul(TOne - omega, qk)
              skyk == Mul(sk, yk)
              qksk == Mul(qk, sk)
          IN  IF skyk = 0 \/ qksk = 0 THEN NonFinite
              ELSE Fin(Bk + Mul(Div(TOne, skyk), Mul(yk, yk))
                          - Mul(Div(TOne, qksk), Mul(qk, qk)))

\* inner_prod(u, v), mul(B, v) for a matrix given by its columns, and the
\* entry (r, c) of mul(u, v.T())
dot(u, v) == Mul(u[1], v[1]) + Mul(u[2], v[2])
matvec(B, v) == [r \in 1..2 |-> Mul(B[1][r], v[1]) + Mul(B[2][r], v[2])]
outer(u, v, r, c) == Mul(u[r], v[c])

\* a matrix with a non-finite entry
NonFiniteMatrix == <<NonFinite>>

\* the function bfgs_ built in Sqpmethod::init for a dense 2x2 Bk, with
\* sk = x - x_old and yk0 = gLag - gLag_old
bfgsM(B, sk, yk0) ==
  IF B = NonFiniteMatrix THEN NonFiniteMatrix
  ELSE
    LET qk == matvec(B, sk)
        skBksk == dot(sk, qk)
        damp == dot(yk0, sk) < Mul(TOne \div 5, dot(sk, qk))
        den == skBksk - dot(sk, yk0)
    IN  IF damp /\ den = 0 THEN NonFiniteMatrix
        ELSE
          LET omega == IF damp THEN Div(Mul((4 * TOne) \div 5, skBksk), den) ELSE TOne
              yk == [r \in 1..2 |-> Mul(omega, yk0[r]) + Mul(TOne - omega, qk[r])]
              skyk == dot(sk, yk)
              qksk == dot(qk, sk)
          IN  IF skyk = 0 \/ qksk = 0 THEN NonFiniteMatrix
              ELSE [c \in 1..2 |-> [r \in 1..2 |->
                      B[c][r] + Mul(Div(TOne, skyk), outer(yk, yk, r, c))
                              - Mul(Div(TOne, qksk), outer(qk, qk, r, c))]]

\* "Reset Hessian approximation by dropping all off-diagonal entries"
dropOffDiagonal(B) ==
  IF B = NonFiniteMatrix THEN NonFiniteMatrix
  ELSE [c \in 1..Len(B) |-> [r \in 1..Len(B) |-> IF c # r THEN 0 ELSE B[c][r]]]

\* a Hessian update that drops the off-diagonal entries after the BFGS update
hessianUpdate_reset_after(B, it, sk, yk0) ==
  IF it % cfg.lbfgs_memory_ = 0 THEN dropOffDiagonal(bfgsM(B, sk, yk0))
  ELSE bfgsM(B, sk, yk0)

\* "BFGS with careful updates and restarts": the Hessian update of iteration
\* it in BFGS mode (for the 1x1 Bk_ of Update the reset changes nothing)
hessianUpdate(B, it, sk, yk0) ==
  bfgsM(IF it % cfg.lbfgs_memory_ = 0 THEN dropOffDiagonal(B) ELSE B, sk, yk0)

\* a dual update that takes the QP multipliers whatever the step length
dualStep_full(dual, mu) == dual

\* a dual update that keeps the multipliers of the previous pass
dualStep_stale(dual, mu) == mu

\* the dual update after the line search, and the full step without it
dualStep(dual, mu) ==
  IF cfg.max_iter_ls_ > 0 THEN Mul(t, dual) + Mul(TOne - t, mu) ELSE dual

\* a primal update that keeps x_ when the line search was not successful
primalStep_reject ==
  IF cfg.max_iter_ls_ > 0 THEN (IF ls_success THEN x_cand_ ELSE x_) ELSE x_ + dx_

\* a primal update that takes the candidate also when the search is disabled
primalStep_candidate == x_cand_

\* the primal update after the line search, and the full step without it
primalStep == IF cfg.max_iter_ls_ > 0 THEN x_cand_ ELSE x_ + dx_

\* a Lagrangian gradient at the old point with the multipliers of the previous
\* pass
lagGradOld_old_duals(mu, mux) == lagGrad(gf_, Jk_, mu_, mu_x_)

\* "the gradient of the Lagrangian with the old x but new mu (for BFGS)":
\* from gf_ and Jk_ before their re-evaluation
lagGradOld(mu, mux) == lagGrad(gf_, Jk_, mu, mux)

\* the rest of the loop body after the line search: dual and primal update,
\* gLag_old_ (BFGS), re-evaluation of jac_g and grad_f, gLag_, Hessian
\* update; fail names the evaluator that throws
Update ==
  /\ pc = "update"
  /\ \E fail \in evalFailures,
        e \in evalAt(evalArgs(primalStep, dualStep(qp_DUAL_A_, mu_)).x,
                     evalArgs(primalStep, dualStep(qp_DUAL_A_, mu_)).lam) :
      LET g == e.g
          J == e.J
          f == e.f
          gf == e.gf
          H == e.H
          mu == dualStep(qp_DUAL_A_, mu_)
          mux == dualStep(qp_DUAL_X_, mu_x_)
          x == primalStep
          gLag_old == IF cfg.exact_hessian_ THEN gLag_old_
                      ELSE lagGradOld(mu, mux)
          gLag == lagGrad(gf, J, mu, mux)
      IN
       /\ fail = "h" => cfg.exact_hessian_
       /\ fail = "jac_g" => e.g = 0 /\ e.f = 0
       /\ fail = "grad_f" => e.f = TOne
       /\ mu_' = mu /\ mu_x_' = mux
       /\ x_old_' = x_ /\ x_' = x
       /\ gLag_old_' = gLag_old
       /\ gk_' = IF fail = "jac_g" THEN gk_ ELSE g
       /\ Jk_' = IF fail = "jac_g" THEN Jk_ ELSE J
       /\ fk_' = IF fail \in {"jac_g", "grad_f"} THEN fk_ ELSE f
       /\ gf_' = IF fail \in {"jac_g", "grad_f"} THEN gf_ ELSE gf
       /\ n_eval' = [n_eval EXCEPT
              !.jac_g = IF fail = "jac_g" THEN @ ELSE @ + 1,
              !.grad_f = IF fail \in {"jac_g", "grad_f"} THEN @ ELSE @ + 1]
       /\ gLag_' = IF fail \in {"jac_g", "grad_f"} THEN gLag_ ELSE gLag
       /\ IF fail = "none"
            THEN /\ pc' = "loop"
                 /\ IF cfg.exact_hessian_
                      THEN /\ Bk_' = Fin(scalar(eval_h(mat1(H), reg_)[1]))
                           /\ reg_' = eval_h(mat1(H), reg_)[2]
                      ELSE /\ Bk_' = bfgs(Bk_, x, x_, gLag, gLag_old)
                           /\ reg_' = reg_
            ELSE /\ pc' = evalFailure
                 /\ UNCHANGED <<Bk_, reg_>>
       /\ hist' = [hist EXCEPT !.thrown = IF fail = "none" THEN @ ELSE fail]
  /\ UNCHANGED <<cfg, mant, prob, Hbuf, other, arg, solves, x_cand_, gk_cand_, qpvars, lsvars, iter,
                 ret, n_qp, out, stats>>

Next == Solve \/ Terminate \/ QPFail \/ Iterate
        \/ TrialEvalFail \/ TrialAccept \/ TrialExhausted \/ TrialBacktrack
        \/ Update

Spec == Init /\ [][Next]_vars

\* evalD runs sequentially on the calling thread: a step that can be taken
\* is taken
LiveSpec == Init /\ [][Next]_vars /\ WF_vars(Next)

\* solver objects on which evalD is called again: without callback, with at
\* most one iteration and at most one counted trial per call
ResolveInit ==
  /\ Init
  /\ cfg.max_iter_ <= 1 /\ cfg.max_iter_ls_ <= 1
  /\ ~cfg.has_callback /\ cfg.merit_memsize_ = 1

ResolveNext == Solve \/ Resolve \/ Terminate \/ QPFail \/ Iterate
               \/ TrialEvalFail \/ TrialAccept \/ TrialExhausted \/ TrialBacktrack
               \/ Update

ResolveSpec == ResolveInit /\ [][ResolveNext]_vars

\* solver objects in exact Hessian mode on a convex quadratic NLP, with a QP
\* solver that returns the solution of the QP and evaluators that do not
\* throw
QuadInit ==
  /\ cfg \in [max_iter_: 0..MaxIterOpt, max_iter_ls_: 0..MaxIterLsOpt,
              has_callback: BOOLEAN, exact_hessian_: {TRUE},
              merit_memsize_: {1, 2}, lbfgs_memory_: {2}, regularize_: BOOLEAN,
              c1_: {TOne \div 4, (3 * TOne) \div 4}]
  /\ mant = 0
  /\ prob \in QuadProblems
  /\ Hbuf = NoMatrix
  /\ InitEngine

QuadNext == Solve \/ Terminate \/ Iterate
            \/ TrialAccept \/ TrialExhausted \/ TrialBacktrack
            \/ Update

QuadSpec == QuadInit /\ [][QuadNext]_vars

\* solver objects on which evalD is called again, behind which is either
\* a pair of ports that may answer anything and throw, or (in exact Hessian
\* mode) a quadratic NLP with a QP solver that returns the solution
RestartInit ==
  /\ cfg \in {c \in Configs : /\ c.max_iter_ <= 1 /\ c.max_iter_ls_ <= 1
                               /\ ~c.has_callback /\ c.merit_memsize_ = 1}
  /\ mant = 0
  /\ prob \in {Ports} \cup QuadProblems
  /\ prob.kind = "quadratic" => cfg.exact_hessian_
  /\ Hbuf = NoMatrix
  /\ InitEngine

RestartNext == Solve \/ Resolve \/ Terminate \/ QPFail \/ Iterate
               \/ TrialEvalFail \/ TrialAccept \/ TrialExhausted \/ TrialBacktrack
               \/ Update

RestartSpec == RestartInit /\ [][RestartNext]_vars

\* the members of the object that hold the iterate
memberIterate == <<x_, mu_, mu_x_, Bk_, dx_, sigma_, merit_mem_>>

\* two evalD calls on one solver object from two threads: the running call
\* is suspended with its local variables and the other call goes on (or
\* begins) with its own; the members of the object stay where they are
Switch ==
  /\ pc # "idle" \/ other.pc # "idle"
  /\ other' = [pc |-> pc, iter |-> iter, ls_iter |-> ls_iter,
               ls_success |-> ls_success, t |-> t, fk_cand |-> fk_cand,
               L1dir |-> L1dir, ret |-> ret, seen |-> memberIterate]
  /\ pc' = other.pc /\ iter' = other.iter /\ ls_iter' = other.ls_iter
  /\ ls_success' = other.ls_success /\ t' = other.t
  /\ fk_cand' = other.fk_cand /\ L1dir' = other.L1dir /\ ret' = other.ret
  /\ UNCHANGED <<cfg, mant, prob, Hbuf, arg, solves, iterate, qpvars, sigma_,
                 merit_mem_, reg_, n_eval, n_qp, out, stats, hist>>

\* a trial whose Armijo test dereferences the end iterator of an empty merit
\* memory and faults: the call is over
TrialFault ==
  /\ pc = "linesearch"
  /\ merit_mem_ = <<>>
  /\ \E fg \in trialAt(trialPoint) : TrialEvaluated(fg[1], fg[2])
  /\ pc' = "error"
  /\ UNCHANGED <<t, ls_success>>

\* solver objects in exact Hessian mode on a convex quadratic NLP with an
\* exact QP solver, without callback, used by two threads
ConcInit ==
  /\ cfg \in [max_iter_: {0, 1}, max_iter_ls_: 0..MaxIterLsOpt,
              has_callback: {FALSE}, exact_hessian_: {TRUE},
              merit_memsize_: {1}, lbfgs_memory_: {2}, regularize_: {FALSE},
              c1_: {TOne \div 4, (3 * TOne) \div 4}]
  /\ mant = 0
  /\ prob \in QuadProblems
  /\ Hbuf = NoMatrix
  /\ InitEngine

ConcNext == Solve \/ Switch \/ Terminate \/ Iterate
            \/ TrialAccept \/ TrialExhausted \/ TrialBacktrack \/ TrialFault
            \/ Update

ConcSpec == ConcInit /\ [][ConcNext]_vars

\* solver objects on the NLP Nonlinear, whose evaluators are functions of
\* the point (and of the multiplier), without callback, with or without the
\* regularization, on which evalD is called again
CacheInit ==
  /\ cfg \in [max_iter_: 0..MaxIterOpt, max_iter_ls_: 0..MaxIterLsOpt,
              has_callback: {FALSE}, exact_hessian_: BOOLEAN,
              merit_memsize_: {1}, lbfgs_memory_: {2}, regularize_: BOOLEAN,
              c1_: {TOne \div 2}]
  /\ mant = 0
  /\ prob = Nonlinear
  /\ Hbuf = NoMatrix
  /\ InitEngine

CacheNext == Solve \/ Resolve \/ Terminate \/ Iterate
             \/ TrialAccept \/ TrialExhausted \/ TrialBacktrack
             \/ Update

CacheSpec == CacheInit /\ [][CacheNext]_vars

\* solver objects with the option merit_memory from 0 on, in exact Hessian
\* mode without callback
MemInit ==
  /\ cfg \in [max_iter_: 0..MaxIterOpt, max_iter_ls_: 0..MaxIterLsOpt,
              has_callback: {FALSE}, exact_hessian_: {TRUE},
              merit_memsize_: {0, 1, 2}, lbfgs_memory_: {2}, regularize_: {TRUE},
              c1_: {TOne \div 2}]
  /\ mant = 0
  /\ prob = Ports
  /\ Hbuf = NoMatrix
  /\ InitEngine

MemNext == Solve \/ Terminate \/ QPFail \/ Iterate
           \/ TrialEvalFail \/ TrialAccept \/ TrialExhausted \/ TrialBacktrack
           \/ TrialFault \/ Update

MemSpec == MemInit /\ [][MemNext]_vars

\* the Hessian approximation of BFGS mode looked at on its own, for nx = 2:
\* passes of the loop of which only the counter and the update of Bk_ are
\* kept, with steps sk # 0 and gradient differences yk0 drawn per pass
MaxBfgsIter == 3
Steps == {<<TOne, 0>>, <<TOne, TOne>>, <<TOne, -TOne>>}
GradDiffs == {<<TOne, 0>>, <<TOne, TOne>>, <<0, -TOne>>}

\* B_init_ = DMatrix::eye(nx_) for nx = 2
eye2 == <<<<TOne, 0>>, <<0, TOne>>>>

BfgsInit ==
  /\ cfg \in [max_iter_: {MaxBfgsIter}, max_iter_ls_: {0},
              has_callback: {FALSE}, exact_hessian_: {FALSE},
              merit_memsize_: {1}, lbfgs_memory_: {1, 2, 3}, regularize_: {FALSE},
              c1_: {TOne \div 2}]
  /\ mant = 0
  /\ prob = Ports
  /\ Hbuf = [H0 |-> <<>>, H |-> <<>>, reg |-> 0, at |-> "none",
             sk |-> <<0, 0>>, yk |-> <<0, 0>>]
  /\ InitEngine

\* the start of an evalD call in BFGS mode: reset_h and iter = 0
BfgsStart ==
  /\ solves < MaxSolves
  /\ solves' = solves + 1
  /\ iter' = 0
  /\ Hbuf' = [Hbuf EXCEPT !.H0 = Hbuf.H, !.H = eye2, !.at = "reset_h",
                          !.sk = <<0, 0>>, !.yk = <<0, 0>>]
  /\ UNCHANGED <<cfg, mant, prob, other, arg, pc, iterate, qpvars, lsvars, reg_,
                 ret, n_eval, n_qp, out, stats, hist>>

\* a pass of the loop in BFGS mode: iter++ and, at its end, the Hessian
\* update with the step and the gradient difference of the pass
BfgsPass ==
  /\ Hbuf.at \in {"reset_h", "bfgs"}
  /\ iter < cfg.max_iter_
  /\ iter' = iter + 1
  /\ \E sk \in Steps, yk0 \in GradDiffs :
       Hbuf' = [Hbuf EXCEPT !.H0 = Hbuf.H,
                            !.H = hessianUpdate(Hbuf.H, iter', sk, yk0),
                            !.at = "bfgs", !.sk = sk, !.yk = yk0]
  /\ UNCHANGED <<cfg, mant, prob, other, arg, pc, solves, iterate, qpvars, lsvars, reg_,
                 ret, n_eval, n_qp, out, stats, hist>>

BfgsNext == BfgsStart \/ BfgsPass

BfgsSpec == BfgsInit /\ [][BfgsNext]_vars

(* ============================ properties ============================== *)
\* the three tests of a pass, on the iterate the pass sees (Terminate leaves
\* the iterate, iter and dx_ as the terminating pass saw them)
converged == pr_inf < tol_pr_ /\ gLag_norminf < tol_du_
capReached == iter >= cfg.max_iter_
stepTooSmall == iter > 0 /\ dx_norminf <= min_step_size_

\* C1: a pass that reaches the termination tests (no abort by the callback)
\* reports the first match in the order Converged, MaxIterationsExceeded,
\* StepTooSmall; a pass that is converged and at the iteration cap reports
\* Solve_Succeeded.
C1_TerminationPrecedence ==
  (pc = "done" /\ ret = 0) =>
     /\ converged => stats.return_status = "Solve_Succeeded"
     /\ (~converged /\ capReached)
          => stats.return_status = "Maximum_Iterations_Exceeded"
     /\ (~converged /\ ~capReached /\ stepTooSmall)
          => stats.return_status = "Search_Direction_Becomes_Too_Small"

C1_Witness ==
  /\ pc = "done" /\ ret = 0
  /\ converged /\ capReached /\ stepTooSmall
  /\ stats.return_status = "Solve_Succeeded"

\* C2: a pass whose callback returns a nonzero flag ends the solve at that
\* pass with User_Requested_Stop, also when the iterate is converged, and
\* the pass calls neither the QP solver nor an evaluator.
C2_AbortWins ==
  [][(pc = "loop" /\ ret' # 0) =>
        /\ pc' = "done"
        /\ stats'.return_status = "User_Requested_Stop"
        /\ stats'.iter_count = iter
        /\ n_qp' = n_qp /\ n_eval' = n_eval
        /\ UNCHANGED <<iterate, qpvars, lsvars>>]_vars

C2_Witness ==
  /\ pc = "done" /\ ret # 0 /\ converged /\ iter > 0
  /\ stats.return_status = "User_Requested_Stop"

\* C3: with the line search enabled the number of trials never exceeds
\* max_iter_ls_, whether trials fail by exception or by the Armijo test.
C3_TrialsBounded == cfg.max_iter_ls_ > 0 => ls_iter <= cfg.max_iter_ls_

\* C4: a trial whose evaluation throws is handled like a rejected trial: not
\* propagated, ls_iter incremented, the same test against max_iter_ls_
\* (stop without success when it is reached), else t replaced by beta_*t.
C4_FailureLikeRejection ==
  [][(TrialEvalFail /\ ls_iter < LsCap) =>
        /\ pc' # "error"
        /\ ls_iter' = ls_iter + 1
        /\ IF ls_iter' = cfg.max_iter_ls_
             THEN pc' = "update" /\ ~ls_success' /\ t' = t
             ELSE pc' = "linesearch" /\ t' = backtrack(t)]_vars

\* C5: a solve in which no QP solve and no evaluation outside the line
\* search fails and no callback aborts reaches a terminal status.
C5_ReachesTerminalStatus ==
  ([](pc # "error") /\ [](ret = 0)) => <>(pc = "done")

TerminalStatuses ==
  {"Solve_Succeeded", "Maximum_Iterations_Exceeded",
   "Search_Direction_Becomes_Too_Small", "User_Requested_Stop"}

\* C6: when the main loop has exited, the return status is one of the four
\* terminal statuses, written by this call, and the outputs x, f, g, lam_g,
\* lam_x are x_, fk_, gk_, mu_, mu_x_ of the terminating pass.
C6_ExitStatusAndOutputs ==
  pc = "done" =>
     /\ stats.return_status \in TerminalStatuses
     /\ hist.status_written
     /\ stats.iter_count = iter
     /\ out.x = x_ /\ out.f = fk_ /\ out.g = gk_
     /\ out.lam_g = mu_ /\ out.lam_x = mu_x_

C6_Witness ==
  /\ pc = "done" /\ iter = 1
  /\ stats.return_status = "Search_Direction_Becomes_Too_Small"
  /\ out.x # hist.out0.x /\ out.lam_g # out.lam_x

inCall == pc \in {"loop", "linesearch", "update"}

\* C7 as stated: while the loop runs and after a fatal error the outputs
\* hold the values they had before the call, with or without a callback.
C7_OutputsUntouched == (inCall \/ pc = "error") => out = hist.out0

\* C7 amended: with no callback installed, the outputs hold their values of
\* before the call while the loop runs and after a fatal error; with a
\* callback installed they hold them until the first pass, and every pass
\* overwrites them with the iterate of that pass before calling the callback.
C7_OutputsByCallbackOrExit ==
  (inCall \/ pc = "error") =>
     /\ (~cfg.has_callback \/ hist.n_callback = 0) => out = hist.out0
     /\ (cfg.has_callback /\ pc \in {"linesearch", "update"}) =>
          /\ out.x = x_ /\ out.f = fk_ /\ out.g = gk_
          /\ out.lam_g = mu_ /\ out.lam_x = mu_x_

C7_Witness ==
  /\ pc = "error" /\ ~cfg.has_callback /\ iter = 2
  /\ x_ # out.x /\ mu_ # out.lam_g /\ out = hist.out0

\* C8: a QP solve that fails leaves the call at once: none of the iterate,
\* the QP solution, the line-search state, the evaluation counters or the
\* statistics is touched by the failing pass, no status is written, and
\* nothing (no retry of the QP either) happens afterwards.
C8_QPFailureFatal ==
  [][/\ (hist.thrown # "qpsol" /\ hist'.thrown = "qpsol") =>
          /\ pc' = "error"
          /\ ~hist'.status_written
          /\ UNCHANGED <<iterate, dx_, qp_DUAL_X_, qp_DUAL_A_, lsvars, reg_,
                         n_eval, stats>>
     /\ hist.thrown = "qpsol" => UNCHANGED vars]_vars

C8_Witness ==
  /\ pc = "error" /\ hist.thrown = "qpsol" /\ iter = 2 /\ n_qp = 2
  /\ stats.return_status = ""

Evaluators == {"jac_g", "grad_f", "h"}

\* C9: an evaluation failure outside the line search (at x0 or at the newly
\* accepted point) leaves the call at once without a status and nothing
\* happens afterwards, whereas no step of the line search leaves the call.
C9_EvalFailureFatal ==
  [][/\ hist'.thrown \in Evaluators => (pc' = "error" /\ ~hist'.status_written)
     /\ hist.thrown \in Evaluators => UNCHANGED vars
     /\ pc = "linesearch" => (pc' # "error" /\ hist'.thrown = "")]_vars

C9_Witness ==
  /\ pc = "error" /\ hist.thrown = "h" /\ iter = 2 /\ ls_iter > 0 /\ ~ls_success

L1meritAt(sigma) == fk_ + Mul(sigma, pr_inf)

times101(v) == FloorDiv(101 * v, 100)

\* C12: within one call, the penalty parameter after the update of a pass
\* is the largest of its previous value and 1.01 times the magnitudes of the
\* two QP duals of the pass; no other step of the call changes it, so it
\* never decreases, and during the line search and the step it is at least
\* 1.01 times the magnitude of either QP dual.
C12_SigmaMonotone ==
  /\ [][/\ (pc = "loop" /\ pc' \in {"linesearch", "update"}) =>
            /\ sigma_' >= sigma_
            /\ sigma_' >= times101(Abs(qp_DUAL_X_'))
            /\ sigma_' >= times101(Abs(qp_DUAL_A_'))
            /\ sigma_' \in {sigma_, times101(Abs(qp_DUAL_X_')),
                            times101(Abs(qp_DUAL_A_'))}
        /\ (pc # "idle" /\ ~(pc = "loop" /\ pc' \in {"linesearch", "update"}))
             => sigma_' = sigma_]_vars
  /\ [](pc \in {"linesearch", "update"} =>
          /\ sigma_ >= times101(Abs(qp_DUAL_X_))
          /\ sigma_ >= times101(Abs(qp_DUAL_A_)))

C12_Witness ==
  /\ pc = "linesearch" /\ iter = 2
  /\ qp_DUAL_X_ = 0 /\ qp_DUAL_A_ = 0 /\ sigma_ = times101(TOne)

\* the L1 merit of the candidate held in x_cand_, fk_cand, gk_cand_
L1merit_cand ==
  fk_cand + Mul(sigma_, primalInfeasibility(x_cand_, lbx, ubx, gk_cand_, lbg, ubg))

\* the largest value in the merit memory
meritmax ==
  CHOOSE m \in {merit_mem_[i] : i \in 1..Len(merit_mem_)} :
    \A i \in 1..Len(merit_mem_) : merit_mem_[i] <= m

\* C13: a trial that was evaluated ends the line search with success, at
\* the step length t of the trial, if and only if
\* L1merit_cand <= meritmax + t*c1*L1dir, meritmax being the maximum over
\* the whole merit memory.
C13_NonMonotoneArmijo ==
  [][(pc = "linesearch" /\ hist'.trial = "evaluated") =>
        /\ x_cand_' = x_ + Mul(t, dx_)
        /\ (pc' = "update" /\ ls_success' /\ t' = t)
             <=> (L1merit_cand' <= meritmax + Mul(Mul(t, c1_), L1dir))]_vars

C13_Witness ==
  /\ pc = "update" /\ ls_success /\ hist.trial = "evaluated"
  /\ Len(merit_mem_) = 2 /\ merit_mem_[1] > merit_mem_[2]
  /\ L1merit_cand > merit_mem_[2]

\* C14: with max_iter_ls_ = 0 a pass never enters the line search and
\* evaluates no trial point (the candidate buffers keep their values); it
\* leaves t = 1, ls_iter = 0 and the success flag true, and the step is the
\* full one: x_old_ <- x_, x_ <- x_ + dx_, mu_ <- qp_DUAL_A_,
\* mu_x_ <- qp_DUAL_X_.
C14_DisabledFullStep ==
  /\ [](cfg.max_iter_ls_ = 0 =>
          /\ pc # "linesearch" /\ hist.trial = ""
          /\ ls_iter = 0 /\ ls_success
          /\ pc = "update" => t = TOne)
  /\ [][cfg.max_iter_ls_ = 0 =>
          /\ UNCHANGED <<x_cand_, fk_cand, gk_cand_>>
          /\ pc = "update" =>
                /\ x_old_' = x_ /\ x_' = x_ + dx_
                /\ mu_' = qp_DUAL_A_ /\ mu_x_' = qp_DUAL_X_]_vars

C14_Witness ==
  /\ cfg.max_iter_ls_ = 0 /\ pc = "loop" /\ iter = 1
  /\ dx_ # 0 /\ x_ = x_old_ + dx_ /\ x_cand_ # x_
  /\ mu_ = qp_DUAL_A_ /\ mu_ # arg.lam_g0 /\ mu_x_ = qp_DUAL_X_

\* C16: in BFGS mode, an update after a step that did not move the iterate
\* (x_ = x_old_) leaves the Hessian approximation as it was.
C16_NoMoveKeepsHessian ==
  [][(pc = "update" /\ pc' = "loop" /\ ~cfg.exact_hessian_
        /\ Bk_.finite /\ x_' = x_old_') => Bk_' = Bk_]_vars

\* the outcome of one trial: <<ls_iter, t, x_cand_, ls_success, search over>>
lsOutcome == <<ls_iter, t, x_cand_, ls_success, pc = "update">>

\* the outcome of a trial as a function of the inputs of the line search
\* (x, dx, sigma, the merit memory, L1dir, beta, c1, max_iter_ls), of the
\* trial number and step length reached, and of the answer of the evaluator:
\* it threw (thrown), or returned f and g
lsExpected(x, dx, sigma, mem, dir, n, tt, flag, thrown, f, g) ==
  LET cand == x + Mul(tt, dx)
      merit == f + Mul(sigma, primalInfeasibility(cand, lbx, ubx, g, lbg, ubg))
      top == CHOOSE m \in {mem[i] : i \in 1..Len(mem)} :
               \A i \in 1..Len(mem) : mem[i] <= m
      n1 == IF n < LsCap THEN n + 1 ELSE LsCap
  IN  IF thrown THEN <<n1, Mul(beta_, tt), cand, flag, FALSE>>
      ELSE IF merit <= top + Mul(Mul(tt, c1_), dir) THEN <<n1, tt, cand, flag, TRUE>>
      ELSE IF n1 = cfg.max_iter_ls_ THEN <<n1, tt, cand, FALSE, TRUE>>
      ELSE <<n1, Mul(beta_, tt), cand, flag, FALSE>>

\* C19: every trial of a line search leaves the trial count, the step
\* length, the trial point, the success flag and the decision to stop as one
\* function of the inputs of the search and of the evaluator's answer at the
\* trial point, and changes none of the inputs: two searches with the same
\* inputs and the same answers go through the same trials to the same end.
C19_LineSearchDeterministic ==
  [][pc = "linesearch" =>
        /\ UNCHANGED <<x_, dx_, sigma_, merit_mem_, L1dir, cfg>>
        /\ lsOutcome' = lsExpected(x_, dx_, sigma_, merit_mem_, L1dir, ls_iter, t,
                                   ls_success, hist'.trial = "threw",
                                   fk_cand', gk_cand_')]_vars

C19_Witness ==
  /\ pc = "update" /\ ls_iter = 2 /\ ls_success /\ cfg.max_iter_ls_ = 2
  /\ t = Mul(beta_, TOne) /\ x_cand_ = x_ + Mul(t, dx_) /\ dx_ # 0

\* C20: at the top of every pass, where the dual infeasibility is computed,
\* gLag_ is gf_ + Jk_^T mu_ + mu_x_ of the stored gradient, Jacobian and
\* multipliers, and the BFGS update of a step is made with that same value.
C20_LagrangianGradient ==
  /\ [](pc = "loop" => gLag_ = gf_ + Mul(Jk_, mu_) + mu_x_)
  /\ [][(pc = "update" /\ pc' = "loop" /\ ~cfg.exact_hessian_) =>
          Bk_' = bfgs(Bk_, x_', x_old_', gf_' + Mul(Jk_', mu_') + mu_x_',
                      gLag_old_')]_vars

C20_Witness ==
  /\ pc = "loop" /\ iter = 1 /\ ~cfg.exact_hessian_ /\ Bk_.finite
  /\ mu_x_ # 0 /\ gf_ # 0 /\ gLag_ = gf_ + Mul(Jk_, mu_) + mu_x_

\* the hot start passed to the QP solver as QPSOL_X0: the vector that
\* receives the solution, as it is when solve_QP is called
qpHotStart == dx_

\* C15: at pass 0 of every call, the first or a later one on the same
\* object, the step norm that is reported is zero and the hot start of the
\* first QP is the zero vector.
C15_FirstPassStepZero ==
  (pc = "loop" /\ iter = 0) => (dx_norminf = 0 /\ qpHotStart = 0)

\* the sum of the magnitudes of the off-diagonal entries j.. of row i
RECURSIVE offSum(_, _, _)
offSum(H, i, j) ==
  IF j > Len(H) THEN 0
  ELSE (IF j = i THEN 0 ELSE Abs(H[j][i])) + offSum(H, i, j + 1)

\* the Gershgorin bound of row i, as a real number
gershgorin(H, i) == H[i][i] - offSum(H, i, 1)

\* C17: for a symmetric H with its diagonal present, the regularization
\* found is >= 0, it is 0 when every Gershgorin bound of H is >= 0, and
\* after the shift every Gershgorin bound is >= 0, a second
\* getRegularization returns 0 and the off-diagonal entries are unchanged.
C17_GershgorinAfterShift ==
  Hbuf.at = "regularized" =>
    LET n == Len(Hbuf.H)
    IN  /\ Hbuf.reg >= 0
        /\ (\A i \in 1..n : gershgorin(Hbuf.H0, i) >= 0) => Hbuf.reg = 0
        /\ \A i \in 1..n : gershgorin(Hbuf.H, i) >= 0
        /\ getRegularization(Hbuf.H) = 0
        /\ \A i, j \in 1..n : i # j => Hbuf.H[i][j] = Hbuf.H0[i][j]

\* the convergence test of pass 0, on the start point and the multipliers
\* passed to the call, for a quadratic NLP
startConverged ==
  LET e == quadValues(arg.x0)
  IN  /\ primalInfeasibility(arg.x0, lbx, ubx, e.g, lbg, ubg) < tol_pr_
      /\ norm_inf(lagGrad(e.gf, e.J, arg.lam_g0, arg.lam_x0)) < tol_du_

\* C18 as stated: on a convex quadratic NLP with the exact Hessian and an
\* exact QP solver every call ends Converged with iteration count 1, and
\* every line search accepts t = 1 on its first trial
C18_OneIterationOnConvexQP ==
  prob.kind = "quadratic" =>
    /\ pc = "done" =>
         (stats.return_status = "Solve_Succeeded" /\ stats.iter_count = 1)
    /\ (pc = "update" /\ cfg.max_iter_ls_ > 0) =>
         (ls_iter = 1 /\ t = TOne /\ ls_success)

\* C18 amended: on a convex quadratic NLP with the exact Hessian and an exact
\* QP solver, the line search of the first iteration accepts t = 1 on its
\* first trial when c1 < 1/2; and a call with max_iter >= 1 whose start point
\* does not pass the convergence test, whose callback does not ask to stop
\* and whose line search is disabled or has c1 < 1/2 ends Converged with
\* iteration count 1
C18_OneIterationWhenFullStepTaken ==
  prob.kind = "quadratic" =>
    /\ (pc = "update" /\ cfg.max_iter_ls_ > 0 /\ iter = 1 /\ 2 * c1_ < TOne) =>
         (ls_iter = 1 /\ t = TOne /\ ls_success)
    /\ (/\ pc = "done" /\ cfg.max_iter_ >= 1 /\ ~startConverged /\ ret = 0
        /\ (cfg.max_iter_ls_ = 0 \/ 2 * c1_ < TOne)) =>
         (stats.return_status = "Solve_Succeeded" /\ stats.iter_count = 1)

\* a call on a quadratic NLP that moved by the QP step with an accepted first
\* trial and ended Converged after one iteration
C18_Witness ==
  /\ prob.kind = "quadratic" /\ pc = "done" /\ ~startConverged
  /\ cfg.max_iter_ls_ > 0 /\ 2 * c1_ < TOne /\ ls_iter = 1 /\ t = TOne
  /\ dx_ # 0 /\ x_ = arg.x0 + dx_ /\ prob.a # 0 /\ prob.h > 0
  /\ stats.return_status = "Solve_Succeeded" /\ stats.iter_count = 1

\* C21: in a call the number of QP solves performed equals the iteration
\* counter (0 before the first QP, one more with every pass that goes on to
\* its QP), the counter never exceeds max_iter, and the reported iter_count
\* is the counter of the terminating pass
C21_IterCountsQPSolves ==
  pc # "idle" =>
    /\ n_qp = iter
    /\ iter <= cfg.max_iter_
    /\ pc = "done" => stats.iter_count = iter

\* a call that ended at the iteration cap after two QP solves
C21_Witness ==
  /\ pc = "done" /\ cfg.max_iter_ = MaxIterOpt /\ iter = MaxIterOpt
  /\ n_qp = MaxIterOpt /\ stats.iter_count = MaxIterOpt

\* C23: a call that ended with Search_Direction_Becomes_Too_Small ended at a
\* pass with iter > 0, after at least one QP solve, with the inf-norm of the
\* step of the last QP at most min_step_size, the convergence test and the
\* iteration cap not matching and no stop requested
C23_StepTooSmallOnlyAfterQP ==
  (pc = "done" /\ stats.return_status = "Search_Direction_Becomes_Too_Small") =>
    /\ iter > 0 /\ n_qp > 0 /\ stats.iter_count > 0
    /\ dx_norminf <= min_step_size_
    /\ ~converged /\ ~capReached /\ ret = 0

\* a call that ended with this status after one QP solve that returned a
\* zero step
C23_Witness ==
  /\ pc = "done" /\ stats.return_status = "Search_Direction_Becomes_Too_Small"
  /\ iter = 1 /\ n_qp = 1 /\ dx_ = 0 /\ cfg.max_iter_ = 2

\* C24: with the line search enabled the update after the search sets
\* mu = t*dual_a + (1-t)*mu and mu_x = t*dual_x + (1-t)*mu_x with the t of
\* the last trial point, which becomes x; with t = 1 the new x, mu and mu_x
\* are those of the full step of the disabled mode
C24_DualConvexCombination ==
  [][(Update /\ cfg.max_iter_ls_ > 0) =>
       /\ mu_' = Mul(t, qp_DUAL_A_) + Mul(TOne - t, mu_)
       /\ mu_x_' = Mul(t, qp_DUAL_X_) + Mul(TOne - t, mu_x_)
       /\ x_' = x_cand_ /\ x_cand_ = x_ + Mul(t, dx_)
       /\ t = TOne => (x_' = x_ + dx_ /\ mu_' = qp_DUAL_A_ /\ mu_x_' = qp_DUAL_X_)]_vars

\* the first update of a call after a search that ended with a step length
\* below 1, the multipliers being a proper combination
C24_Witness ==
  /\ pc = "loop" /\ iter = 1 /\ cfg.max_iter_ls_ > 0
  /\ 0 < t /\ t < TOne /\ dx_ # 0 /\ x_ = x_old_ + Mul(t, dx_)
  /\ mu_ = Mul(t, qp_DUAL_A_) + Mul(TOne - t, arg.lam_g0)
  /\ mu_ # qp_DUAL_A_ /\ mu_ # arg.lam_g0

\* beta^k as the loop computes it, by k multiplications of 1 by beta
RECURSIVE powBeta(_)
powBeta(k) == IF k = 0 THEN TOne ELSE Mul(beta_, powBeta(k - 1))

\* C25: in an enabled line search (trial numbers below LsCap) the step
\* length before trial k is beta^(k-1) and the trial point of trial k is
\* x + beta^(k-1)*dx; when the search has ended after ls_iter trials,
\* t = beta^(ls_iter-1), 0 < t <= 1, and after the update x - x_old = t*dx
C25_GeometricStepLength ==
  (cfg.max_iter_ls_ > 0 /\ ls_iter < LsCap) =>
    /\ pc = "linesearch" =>
         /\ t = powBeta(ls_iter)
         /\ ls_iter > 0 => x_cand_ = x_ + Mul(powBeta(ls_iter - 1), dx_)
    /\ pc = "update" =>
         /\ ls_iter > 0 /\ t = powBeta(ls_iter - 1)
         /\ 0 < t /\ t <= TOne
         /\ x_cand_ = x_ + Mul(t, dx_)
    /\ (pc \in {"loop", "done"} /\ iter > 0) =>
         (t = powBeta(ls_iter - 1) /\ x_ - x_old_ = Mul(t, dx_))

\* an update done after a search that ended at its second trial
C25_Witness ==
  /\ pc = "loop" /\ iter = 1 /\ cfg.max_iter_ls_ > 0
  /\ ls_iter = 2 /\ t = Mul(beta_, TOne) /\ dx_ # 0
  /\ x_ - x_old_ = Mul(t, dx_)

\* C26: in BFGS mode the update sets g_lag_old from the gradient and the
\* Jacobian of the old point and the new multipliers, also when the
\* re-evaluation then throws; when it does not throw, g_lag is built from the
\* re-evaluated gradient and Jacobian with the same multipliers and the two
\* are what the BFGS update gets
C26_OldGradientNewDuals ==
  [][(Update /\ ~cfg.exact_hessian_) =>
       /\ gLag_old_' = gf_ + Mul(Jk_, mu_') + mu_x_'
       /\ pc' = "loop" =>
            /\ gLag_' = gf_' + Mul(Jk_', mu_') + mu_x_'
            /\ Bk_' = bfgs(Bk_, x_', x_, gLag_', gLag_old_')]_vars

\* a BFGS update after a step that moved x and changed the multipliers and
\* the gradient of the Lagrangian
C26_Witness ==
  /\ pc = "loop" /\ iter = 1 /\ ~cfg.exact_hessian_
  /\ x_ # x_old_ /\ mu_ # arg.lam_g0 /\ gLag_ # gLag_old_
  /\ Bk_.finite /\ Bk_ # Fin(B_init_)

\* the diagonal of a 2x2 matrix, as a matrix
diagonalOf(B) == <<<<B[1][1], 0>>, <<0, B[2][2]>>>>

\* C27: in BFGS mode a call starts from the identity; the Hessian update of
\* an iteration whose counter is a multiple of lbfgs_memory is the BFGS
\* update of the diagonal of the approximation (off-diagonal entries zero,
\* diagonal unchanged), that of any other iteration the BFGS update of the
\* unmodified approximation
C27_ResetBeforeUpdate ==
  [][/\ BfgsStart => (Hbuf'.H = <<<<TOne, 0>>, <<0, TOne>>>> /\ iter' = 0)
     /\ (BfgsPass /\ Hbuf.H # NonFiniteMatrix) =>
          Hbuf'.H = IF iter' % cfg.lbfgs_memory_ = 0
                      THEN bfgsM(diagonalOf(Hbuf.H), Hbuf'.sk, Hbuf'.yk)
                      ELSE bfgsM(Hbuf.H, Hbuf'.sk, Hbuf'.yk)]_vars

\* an update at a multiple of lbfgs_memory of an approximation with
\* off-diagonal entries, where the reset changes the result
C27_Witness ==
  /\ Hbuf.at = "bfgs" /\ iter > 0 /\ iter % cfg.lbfgs_memory_ = 0
  /\ Hbuf.H0 # NonFiniteMatrix /\ Hbuf.H0[2][1] # 0
  /\ Hbuf.H = bfgsM(diagonalOf(Hbuf.H0), Hbuf.sk, Hbuf.yk)
  /\ Hbuf.H # bfgsM(Hbuf.H0, Hbuf.sk, Hbuf.yk)
  /\ Hbuf.H # NonFiniteMatrix

\* C28: every pass that reaches the QP formulates the step bounds
\* (lbx - x, ubx - x) and the constraint bounds (lbg - g, ubg - g) from the
\* current iterate and hands the solver the current Hessian, gradient and
\* Jacobian and, as hot start, dx as the last solved QP left it (only a
\* solved QP changes dx); if x and g(x) satisfy their bounds the zero step
\* satisfies the QP bounds
C28_QPFromIterate ==
  [][/\ (Iterate \/ QPFail) =>
          /\ qp_bounds' = [LBX |-> lbx - x_, UBX |-> ubx - x_,
                           LBA |-> lbg - gk_, UBA |-> ubg - gk_]
          /\ qpData = [H |-> Bk_, g |-> gf_, A |-> Jk_, x0 |-> dx_]
          /\ UNCHANGED <<x_, gk_, gf_, Jk_, Bk_>>
          /\ pr_inf = 0 =>
               /\ qp_bounds'.LBX <= 0 /\ 0 <= qp_bounds'.UBX
               /\ qp_bounds'.LBA <= 0 /\ 0 <= qp_bounds'.UBA
     /\ dx_' # dx_ => Iterate]_vars

\* the second QP of a call, formulated at a point other than the previous
\* one, where the constraint holds and its QP bounds admit the zero step
C28_Witness ==
  /\ pc \in {"linesearch", "update"} /\ iter = 2 /\ x_ # x_old_
  /\ qp_bounds = qpFormulate /\ qp_bounds # qpFormulate_stale
  /\ qp_bounds.LBX = lbx - x_ /\ gk_ = 0 /\ qp_bounds.LBA = 0 /\ qp_bounds.UBA = 0

\* C29: with a callback installed, the callback has been evaluated once in
\* every pass begun so far, trials and QP solves adding none: iter times
\* when a pass is about to begin, is in its line search or update, or was
\* left by an exception, and iter_count + 1 times when the call has ended
\* with any status; the outputs it was given are the iterate of the pass.
\* Without a callback nothing is evaluated
C29_CallbackOncePerPass ==
  pc # "idle" =>
    IF cfg.has_callback
      THEN /\ pc \in {"loop", "linesearch", "update", "error"} => hist.n_callback = iter
           /\ pc = "done" => hist.n_callback = stats.iter_count + 1
           /\ pc \in {"linesearch", "update", "done"} => out = iterateOutputs
      ELSE hist.n_callback = 0

\* a call with a callback that ended by itself after two iterations with
\* line searches of more than one trial
C29_Witness ==
  /\ cfg.has_callback /\ pc = "done" /\ stats.iter_count = 2 /\ ret = 0
  /\ stats.return_status # "User_Requested_Stop"
  /\ hist.n_callback = 3 /\ ls_iter > 1

\* the first pass of a call: the loop is entered and no pass has gone on
firstPass == pc = "loop" /\ iter = 0

atIterate == nonlinearValues(x_, mu_)

\* f, g, grad_f and jac_g are those of the current x
cachesAtCurrentX ==
  /\ fk_ = atIterate.f /\ gk_ = atIterate.g
  /\ gf_ = atIterate.gf /\ Jk_ = atIterate.J

\* C31 as stated: at the top of every pass f, g, grad_f and jac_g are the
\* values at the current x, and in exact mode the Hessian is the Hessian of
\* the Lagrangian at the current x and the current mu
C31_CachesAtCurrentPoint ==
  (pc = "loop" /\ prob.kind = "nonlinear") =>
    /\ cachesAtCurrentX
    /\ cfg.exact_hessian_ => Bk_ = Fin(atIterate.H)

\* C31 amended: at the top of every pass, of a first or a later call, f, g,
\* grad_f and jac_g are the values at the current x, and in exact mode the
\* Hessian is the Hessian of the Lagrangian at the current x and the current
\* mu with the regularization added to its diagonal: 0 without the option
\* regularize, else the Gershgorin shift of that Hessian
C31_CachesAtCurrentPointShifted ==
  (pc = "loop" /\ prob.kind = "nonlinear") =>
    /\ cachesAtCurrentX
    /\ cfg.exact_hessian_ =>
         /\ Bk_ = Fin(atIterate.H + reg_)
         /\ reg_ = IF cfg.regularize_ THEN Max(0, -atIterate.H) ELSE 0

\* the top of the second pass of a call in exact mode without
\* regularization, after a step with t < 1 that moved x and changed mu, where
\* the Hessian at the old point or with the multiplier passed to the call is
\* another one
C31_Witness ==
  /\ pc = "loop" /\ prob.kind = "nonlinear" /\ cfg.exact_hessian_ /\ iter = 1
  /\ x_ # x_old_ /\ x_ = x_cand_ /\ t < TOne /\ mu_ # arg.lam_g0
  /\ cachesAtCurrentX /\ fk_ # nonlinearValues(x_old_, mu_).f
  /\ ~cfg.regularize_ /\ Bk_ = Fin(atIterate.H)
  /\ Bk_ # Fin(nonlinearValues(x_old_, mu_).H)
  /\ Bk_ # Fin(nonlinearValues(x_, arg.lam_g0).H)

\* C32: whenever the line search is about to read the window maximum, for
\* every merit_memory size from 0 on, the merit memory is non-empty and holds
\* the L1 merit of the current iterate with the current sigma, so that
\* meritmax is at least that merit
C32_WindowHoldsCurrentMerit ==
  pc = "linesearch" =>
    /\ merit_mem_ # <<>>
    /\ \E i \in 1..Len(merit_mem_) : merit_mem_[i] = L1meritAt(sigma_)
    /\ meritmax >= L1meritAt(sigma_)

\* C33: a call whose pass 0 finds pr_inf < tol_pr and dual_inf < tol_du and
\* whose callback, if any, does not ask to stop ends at that pass with
\* Solve_Succeeded and iter_count = 0, without a QP solve, a line-search
\* trial or a further evaluation, the iterate untouched, and returns as x,
\* lam_g and lam_x the x0, lam_g0 and lam_x0 passed to the call
C33_ConvergedStartReturnsStart ==
  [][(firstPass /\ converged /\ ret' = 0) =>
       /\ pc' = "done"
       /\ stats' = [return_status |-> "Solve_Succeeded", iter_count |-> 0]
       /\ n_qp = 0 /\ n_qp' = 0 /\ hist'.trial = ""
       /\ UNCHANGED <<iterate, qpvars, lsvars, n_eval>>
       /\ out'.x = arg.x0 /\ out'.lam_g = arg.lam_g0 /\ out'.lam_x = arg.lam_x0]_vars

\* a call with a callback and with iterations and trials allowed that ended
\* converged at pass 0 and returned the start point and multipliers
C33_Witness ==
  /\ pc = "done" /\ ret = 0 /\ cfg.has_callback
  /\ cfg.max_iter_ > 0 /\ cfg.max_iter_ls_ > 0
  /\ stats = [return_status |-> "Solve_Succeeded", iter_count |-> 0]
  /\ n_qp = 0 /\ hist.trial = "" /\ hist.n_callback = 1
  /\ out.x = arg.x0 /\ out.x # hist.out0.x
  /\ out.lam_g = arg.lam_g0 /\ out.lam_g # out.lam_x /\ out.lam_x = arg.lam_x0

\* C22: with two calls interleaved on one solver object, a suspended call
\* finds x, the multipliers, the Hessian, the step, sigma and the merit
\* memory as it left them, and a call ends as it does when it runs alone: on
\* a quadratic NLP whose start point does not pass the convergence test, with
\* max_iter = 1 and the line search disabled, converged after one iteration
C22_IterateStatePrivate ==
  /\ other.pc \in {"loop", "linesearch", "update"} => other.seen = memberIterate
  /\ (/\ pc = "done" /\ prob.kind = "quadratic" /\ ~startConverged
      /\ cfg.max_iter_ = 1 /\ cfg.max_iter_ls_ = 0) =>
       (stats.return_status = "Solve_Succeeded" /\ stats.iter_count = 1)

====
